---- MODULE Spec2Model ----
(***************************************************************************)
(* Model of pc.LightComponent (src/src/framework/components/light/         *)
(* component.js): the per-property "set_<name>" handlers, refreshProperties,*)
(* onSetType and the onEnable / onDisable lifecycle hooks, together with   *)
(* the render light object and the scene they drive.                       *)
(*                                                                         *)
(* The component, its render light and the scene are gathered in one       *)
(* record ("self") that every handler takes and returns; the calls a       *)
(* handler makes on the render light, the system and the scene are         *)
(* appended to self.calls in the order the code makes them.                *)
(***************************************************************************)
EXTENDS Integers, Sequences, FiniteSets, TLC

VARIABLES data, light, lightMap, baked, enabled, entityEnabled, sceneModels,
          last, prev

vars == <<data, light, lightMap, baked, enabled, entityEnabled, sceneModels,
          last, prev>>

(***************************************************************************)
(* Bounds of the model.                                                    *)
(***************************************************************************)
MaxMask == 15

(***************************************************************************)
(* Values.                                                                 *)
(***************************************************************************)
NULL == "null"

TypeVals == {"directional", "point", "spot"}

MASK_DYNAMIC == 1
MASK_BAKED == 2
MASK_LIGHTMAP == 4

\* no bit, the default, the three flag bits together, a bit no flag owns,
\* and the largest mask tried
MaskVals == {0, 1, 7, 8, MaxMask}

ShadowDistanceVals == {40, 60}
RangeVals == {10, 20}
InnerConeAngleVals == {40, 30}
OuterConeAngleVals == {45, 50}
FalloffModeVals == {"LIGHTFALLOFF_LINEAR", "LIGHTFALLOFF_INVERSESQUARED"}

ColorVals == {"white", "red"}
IntensityVals == {1, 2}
ShadowResolutionVals == {1024, 512}
NormalOffsetBiasVals == {0, 1}
ShadowTypeVals == {"SHADOW_DEPTH", "SHADOW_DEPTHMASK"}
ShadowUpdateModeVals == {"SHADOWUPDATE_REALTIME", "SHADOWUPDATE_THISFRAME"}

\* Numbers that need not be whole are kept as fractions num / den, den > 0.
Frac(n, d) == [num |-> n, den |-> d]

ShadowBiasVals == {Frac(5, 100), Frac(3, 1), Frac(-2, 1)}

ModelVals == {NULL, "lightModel"}

(***************************************************************************)
(* Bit operations on non-negative masks ( & , |= , &= ~ ).                 *)
(***************************************************************************)
RECURSIVE BitAnd(_, _)
BitAnd(a, b) ==
    IF a = 0 \/ b = 0 THEN 0
    ELSE (a % 2) * (b % 2) + 2 * BitAnd(a \div 2, b \div 2)

BitOr(a, b) == a + b - BitAnd(a, b)

BitAndNot(a, b) == a - BitAnd(a, b)

(***************************************************************************)
(* The property values of a component created with no overrides.           *)
(***************************************************************************)
DefaultData ==
    [ type              |-> "directional",
      color             |-> "white",
      intensity         |-> 1,
      castShadows       |-> FALSE,
      shadowDistance    |-> 40,
      shadowResolution  |-> 1024,
      shadowBias        |-> Frac(5, 100),
      normalOffsetBias  |-> 0,
      range             |-> 10,
      innerConeAngle    |-> 40,
      outerConeAngle    |-> 45,
      falloffMode       |-> "LIGHTFALLOFF_LINEAR",
      shadowType        |-> "SHADOW_DEPTH",
      shadowUpdateMode  |-> "SHADOWUPDATE_REALTIME",
      mask              |-> 1,
      affectDynamic     |-> TRUE,
      affectLightmapped |-> FALSE,
      bake              |-> FALSE,
      model             |-> NULL ]

\* A render light object as the system creates it.
DefaultLight ==
    [ mask |-> 1, enabled |-> FALSE, shadowUpdateMode |-> "SHADOWUPDATE_REALTIME" ]

(***************************************************************************)
(* The component with its collaborators, as the handlers see it.           *)
(***************************************************************************)
This ==
    [ data          |-> data,
      light         |-> light,
      lightMap      |-> lightMap,
      baked         |-> baked,
      enabled       |-> enabled,
      entityEnabled |-> entityEnabled,
      scene         |-> sceneModels,
      calls         |-> << >> ]

\* A call on the render light, the system or the scene, recorded in order.
Call(self, name, arg) == [self EXCEPT !.calls = Append(@, <<name, arg>>)]

\* A call that takes no argument.
CallNoArg(self, name) == [self EXCEPT !.calls = Append(@, <<name>>)]

\* The property setter of the base component: data[name] = value, after
\* which the "set_<name>" event fires with (name, oldValue, value).
Stored(name, value) == [This EXCEPT !.data[name] = value]

(***************************************************************************)
(* Render light and scene methods.                                         *)
(***************************************************************************)
setMask(self, mask) ==
    Call([self EXCEPT !.light.mask = mask], "setMask", mask)

setEnabled(self, value) ==
    Call([self EXCEPT !.light.enabled = value], "setEnabled", value)

containsModel(scene, model) == \E i \in 1..Len(scene) : scene[i] = model

addModel(self, model) ==
    Call([self EXCEPT !.scene = Append(@, model)], "addModel", model)

RemoveFirst(scene, model) ==
    IF ~containsModel(scene, model) THEN scene
    ELSE LET i == CHOOSE k \in 1..Len(scene) :
                      /\ scene[k] = model
                      /\ \A j \in 1..(k - 1) : scene[j] # model
         IN  SubSeq(scene, 1, i - 1) \o SubSeq(scene, i + 1, Len(scene))

removeModel(self, model) ==
    Call([self EXCEPT !.scene = RemoveFirst(@, model)], "removeModel", model)

\* system.changeType swaps in a new render light object.
changeType(self, oldValue, newValue) ==
    Call([self EXCEPT !.light = DefaultLight], "changeType", newValue)

(***************************************************************************)
(* updateShadow: asks the render light to update its shadow.  What the     *)
(* light does with the request is the light's own business; the component  *)
(* changes nothing of its own.                                             *)
(***************************************************************************)
updateShadow(self) ==
    CallNoArg(self, "updateShadow")

(***************************************************************************)
(* Handlers that forward unconditionally.                                  *)
(***************************************************************************)
onSetCastShadows(self, oldValue, newValue) ==
    Call(self, "setCastShadows", newValue)

onSetColor(self, oldValue, newValue) ==
    Call(self, "setColor", newValue)

onSetIntensity(self, oldValue, newValue) ==
    Call(self, "setIntensity", newValue)

onSetShadowResolution(self, oldValue, newValue) ==
    Call(self, "setShadowResolution", newValue)

\* -0.01 * v on fractions
ShadowBiasRemap(v) == Frac(-1 * v.num, 100 * v.den)

\* variant: forwards the value as stored, without the remap
onSetShadowBias_Raw(self, oldValue, newValue) ==
    Call(self, "setShadowBias", newValue)

onSetShadowBias(self, oldValue, newValue) ==
    Call(self, "setShadowBias", ShadowBiasRemap(newValue))

onSetNormalOffsetBias(self, oldValue, newValue) ==
    Call(self, "setNormalOffsetBias", newValue)

onSetShadowType(self, oldValue, newValue) ==
    Call(self, "setShadowType", newValue)

onSetShadowUpdateMode(self, oldValue, newValue) ==
    [self EXCEPT !.light.shadowUpdateMode = newValue]

onSetMask(self, oldValue, newValue) ==
    setMask(self, newValue)

(***************************************************************************)
(* Handlers gated on the current type.                                     *)
(***************************************************************************)
onSetShadowDistance(self, oldValue, newValue) ==
    IF self.data.type # "directional" THEN self
    ELSE Call(self, "setShadowDistance", newValue)

\* variant: the two type tests joined by "or", so the handler always returns
onSetRange_OrGate(self, oldValue, newValue) ==
    IF self.data.type # "point" \/ self.data.type # "spot" THEN self
    ELSE Call(self, "setAttenuationEnd", newValue)

onSetRange(self, oldValue, newValue) ==
    IF self.data.type # "point" /\ self.data.type # "spot" THEN self
    ELSE Call(self, "setAttenuationEnd", newValue)

onSetInnerConeAngle(self, oldValue, newValue) ==
    IF self.data.type # "spot" THEN self
    ELSE Call(self, "setInnerConeAngle", newValue)

onSetOuterConeAngle(self, oldValue, newValue) ==
    IF self.data.type # "spot" THEN self
    ELSE Call(self, "setOuterConeAngle", newValue)

onSetFalloffMode(self, oldValue, newValue) ==
    IF self.data.type # "point" /\ self.data.type # "spot" THEN self
    ELSE Call(self, "setFalloffMode", newValue)

(***************************************************************************)
(* Mask-bit toggles.                                                       *)
(***************************************************************************)
LightMask(self, mask) == [self EXCEPT !.light.mask = mask]

onSetAffectDynamic(self, oldValue, newValue) ==
    LET s1 == IF ~oldValue /\ newValue
                THEN LightMask(self, BitOr(self.light.mask, MASK_DYNAMIC))
              ELSE IF oldValue /\ ~newValue
                THEN LightMask(self, BitAndNot(self.light.mask, MASK_DYNAMIC))
              ELSE self
    IN  setMask(s1, s1.light.mask)

\* variant: MASK_LIGHTMAP is left alone whatever lightMap says
onSetaffectLightmapped_KeepsLightmap(self, oldValue, newValue) ==
    LET s1 == IF ~oldValue /\ newValue
                THEN LightMask(self, BitOr(self.light.mask, MASK_BAKED))
              ELSE IF oldValue /\ ~newValue
                THEN LightMask(self, BitAndNot(self.light.mask, MASK_BAKED))
              ELSE self
    IN  setMask(s1, s1.light.mask)

onSetaffectLightmapped(self, oldValue, newValue) ==
    LET s1 == IF ~oldValue /\ newValue
                THEN LET a == LightMask(self, BitOr(self.light.mask, MASK_BAKED))
                     IN  IF a.lightMap
                           THEN LightMask(a, BitAndNot(a.light.mask, MASK_LIGHTMAP))
                           ELSE a
              ELSE IF oldValue /\ ~newValue
                THEN LET a == LightMask(self, BitAndNot(self.light.mask, MASK_BAKED))
                     IN  IF a.lightMap
                           THEN LightMask(a, BitOr(a.light.mask, MASK_LIGHTMAP))
                           ELSE a
              ELSE self
    IN  setMask(s1, s1.light.mask)

\* variant: MASK_BAKED is edited whether or not the baked flag is set
onSetBake_IgnoresBaked(self, oldValue, newValue) ==
    LET s1 == IF ~oldValue /\ newValue
                THEN LightMask(self, BitAndNot(BitOr(self.light.mask, MASK_LIGHTMAP),
                                               MASK_BAKED))
              ELSE IF oldValue /\ ~newValue
                THEN LightMask(self, BitOr(BitAndNot(self.light.mask, MASK_LIGHTMAP),
                                           MASK_BAKED))
              ELSE self
    IN  setMask(s1, s1.light.mask)

onSetBake(self, oldValue, newValue) ==
    LET s1 == IF ~oldValue /\ newValue
                THEN LET a == LightMask(self, BitOr(self.light.mask, MASK_LIGHTMAP))
                     IN  IF a.baked
                           THEN LightMask(a, BitAndNot(a.light.mask, MASK_BAKED))
                           ELSE a
              ELSE IF oldValue /\ ~newValue
                THEN LET a == LightMask(self, BitAndNot(self.light.mask, MASK_LIGHTMAP))
                     IN  IF a.baked
                           THEN LightMask(a, BitOr(a.light.mask, MASK_BAKED))
                           ELSE a
              ELSE self
    IN  setMask(s1, s1.light.mask)

(***************************************************************************)
(* Lifecycle hooks.                                                        *)
(***************************************************************************)
\* variant: the model is added without asking the scene first
onEnable_NoContainsCheck(self) ==
    LET s1    == setEnabled(self, TRUE)
        model == s1.data.model
    IN  IF model = NULL THEN s1
        ELSE addModel(s1, model)

onEnable(self) ==
    LET s1    == setEnabled(self, TRUE)
        model == s1.data.model
    IN  IF model = NULL THEN s1
        ELSE LET s2 == Call(s1, "containsModel", model)
             IN  IF containsModel(s2.scene, model) THEN s2
                 ELSE addModel(s2, model)

\* variant: no test of the model before the removal
onDisable_NoNullCheck(self) ==
    LET s1    == setEnabled(self, FALSE)
        model == s1.data.model
    IN  removeModel(s1, model)

onDisable(self) ==
    LET s1    == setEnabled(self, FALSE)
        model == s1.data.model
    IN  IF model = NULL THEN s1
        ELSE removeModel(s1, model)

(***************************************************************************)
(* refreshProperties and onSetType.                                        *)
(***************************************************************************)
\* variant: the enable path is taken on the component's flag alone
refreshProperties_IgnoresEntity(self) ==
    LET d   == self.data
        s1  == onSetCastShadows(self, d.castShadows, d.castShadows)
        s2  == onSetColor(s1, d.color, d.color)
        s3  == onSetIntensity(s2, d.intensity, d.intensity)
        s4  == onSetShadowDistance(s3, d.shadowDistance, d.shadowDistance)
        s5  == onSetShadowResolution(s4, d.shadowResolution, d.shadowResolution)
        s6  == onSetShadowBias(s5, d.shadowBias, d.shadowBias)
        s7  == onSetNormalOffsetBias(s6, d.normalOffsetBias, d.normalOffsetBias)
        s8  == onSetRange(s7, d.range, d.range)
        s9  == onSetInnerConeAngle(s8, d.innerConeAngle, d.innerConeAngle)
        s10 == onSetOuterConeAngle(s9, d.outerConeAngle, d.outerConeAngle)
        s11 == onSetFalloffMode(s10, d.falloffMode, d.falloffMode)
        s12 == onSetShadowType(s11, d.shadowType, d.shadowType)
        s13 == onSetShadowUpdateMode(s12, d.shadowUpdateMode, d.shadowUpdateMode)
        s14 == onSetMask(s13, d.mask, d.mask)
        s15 == onSetAffectDynamic(s14, d.affectDynamic, d.affectDynamic)
        s16 == onSetaffectLightmapped(s15, d.affectLightmapped, d.affectLightmapped)
        s17 == onSetBake(s16, d.bake, d.bake)
    IN  IF s17.enabled THEN onEnable(s17) ELSE s17

refreshProperties(self) ==
    LET d   == self.data
        s1  == onSetCastShadows(self, d.castShadows, d.castShadows)
        s2  == onSetColor(s1, d.color, d.color)
        s3  == onSetIntensity(s2, d.intensity, d.intensity)
        s4  == onSetShadowDistance(s3, d.shadowDistance, d.shadowDistance)
        s5  == onSetShadowResolution(s4, d.shadowResolution, d.shadowResolution)
        s6  == onSetShadowBias(s5, d.shadowBias, d.shadowBias)
        s7  == onSetNormalOffsetBias(s6, d.normalOffsetBias, d.normalOffsetBias)
        s8  == onSetRange(s7, d.range, d.range)
        s9  == onSetInnerConeAngle(s8, d.innerConeAngle, d.innerConeAngle)
        s10 == onSetOuterConeAngle(s9, d.outerConeAngle, d.outerConeAngle)
        s11 == onSetFalloffMode(s10, d.falloffMode, d.falloffMode)
        s12 == onSetShadowType(s11, d.shadowType, d.shadowType)
        s13 == onSetShadowUpdateMode(s12, d.shadowUpdateMode, d.shadowUpdateMode)
        s14 == onSetMask(s13, d.mask, d.mask)
        s15 == onSetAffectDynamic(s14, d.affectDynamic, d.affectDynamic)
        s16 == onSetaffectLightmapped(s15, d.affectLightmapped, d.affectLightmapped)
        s17 == onSetBake(s16, d.bake, d.bake)
    IN  IF s17.enabled /\ s17.entityEnabled THEN onEnable(s17) ELSE s17

\* variant: the light is swapped and not refreshed
onSetType_NoRefresh(self, oldValue, newValue) ==
    IF oldValue = newValue THEN self
    ELSE changeType(self, oldValue, newValue)

onSetType(self, oldValue, newValue) ==
    IF oldValue = newValue THEN self
    ELSE refreshProperties(changeType(self, oldValue, newValue))

(***************************************************************************)
(* State after construction.  The system sets the properties of the new   *)
(* component, type first, so the light has been refreshed once.            *)
(***************************************************************************)
NoEvent == [op |-> "none", old |-> FALSE, new |-> FALSE,
            maskBefore |-> 0, sceneBefore |-> << >>, calls |-> << >>]

SceneVals == {<< >>, <<"otherModel">>}

Constructed(model, scene, lm, bk, en, een) ==
    refreshProperties(
        [ data          |-> [DefaultData EXCEPT !.model = model],
          light         |-> DefaultLight,
          lightMap      |-> lm,
          baked         |-> bk,
          enabled       |-> en,
          entityEnabled |-> een,
          scene         |-> scene,
          calls         |-> << >> ])

InitFrom(models, scenes, lms, bks, ens, eens) ==
    \E model \in models, scene \in scenes,
       lm \in lms, bk \in bks, en \in ens, een \in eens :
        LET c == Constructed(model, scene, lm, bk, en, een)
        IN  /\ data = c.data
            /\ light = c.light
            /\ lightMap = lm
            /\ baked = bk
            /\ enabled = en
            /\ entityEnabled = een
            /\ sceneModels = c.scene
            /\ last = NoEvent
            /\ prev = NoEvent

Init == InitFrom(ModelVals, SceneVals, BOOLEAN, BOOLEAN, BOOLEAN, BOOLEAN)

(***************************************************************************)
(* Actions: one per event the framework can fire or hook it can call.      *)
(***************************************************************************)
Commit(op, oldValue, newValue, r) ==
    /\ data' = r.data
    /\ light' = r.light
    /\ sceneModels' = r.scene
    /\ last' = [op |-> op, old |-> oldValue, new |-> newValue,
                maskBefore |-> light.mask, sceneBefore |-> sceneModels,
                calls |-> r.calls]
    /\ prev' = last
    /\ UNCHANGED <<lightMap, baked, enabled, entityEnabled>>

SetType ==
    \E v \in TypeVals :
        Commit("set_type", data.type, v,
               onSetType(Stored("type", v), data.type, v))

SetColor ==
    \E v \in ColorVals :
        Commit("set_color", data.color, v,
               onSetColor(Stored("color", v), data.color, v))

SetIntensity ==
    \E v \in IntensityVals :
        Commit("set_intensity", data.intensity, v,
               onSetIntensity(Stored("intensity", v), data.intensity, v))

SetCastShadows ==
    \E v \in BOOLEAN :
        Commit("set_castShadows", data.castShadows, v,
               onSetCastShadows(Stored("castShadows", v), data.castShadows, v))

SetShadowDistance ==
    \E v \in ShadowDistanceVals :
        Commit("set_shadowDistance", data.shadowDistance, v,
               onSetShadowDistance(Stored("shadowDistance", v), data.shadowDistance, v))

SetShadowResolution ==
    \E v \in ShadowResolutionVals :
        Commit("set_shadowResolution", data.shadowResolution, v,
               onSetShadowResolution(Stored("shadowResolution", v), data.shadowResolution, v))

SetShadowBias ==
    \E v \in ShadowBiasVals :
        Commit("set_shadowBias", data.shadowBias, v,
               onSetShadowBias(Stored("shadowBias", v), data.shadowBias, v))

SetNormalOffsetBias ==
    \E v \in NormalOffsetBiasVals :
        Commit("set_normalOffsetBias", data.normalOffsetBias, v,
               onSetNormalOffsetBias(Stored("normalOffsetBias", v), data.normalOffsetBias, v))

SetRange ==
    \E v \in RangeVals :
        Commit("set_range", data.range, v,
               onSetRange(Stored("range", v), data.range, v))

SetInnerConeAngle ==
    \E v \in InnerConeAngleVals :
        Commit("set_innerConeAngle", data.innerConeAngle, v,
               onSetInnerConeAngle(Stored("innerConeAngle", v), data.innerConeAngle, v))

SetOuterConeAngle ==
    \E v \in OuterConeAngleVals :
        Commit("set_outerConeAngle", data.outerConeAngle, v,
               onSetOuterConeAngle(Stored("outerConeAngle", v), data.outerConeAngle, v))

SetFalloffMode ==
    \E v \in FalloffModeVals :
        Commit("set_falloffMode", data.falloffMode, v,
               onSetFalloffMode(Stored("falloffMode", v), data.falloffMode, v))

SetShadowType ==
    \E v \in ShadowTypeVals :
        Commit("set_shadowType", data.shadowType, v,
               onSetShadowType(Stored("shadowType", v), data.shadowType, v))

SetShadowUpdateMode ==
    \E v \in ShadowUpdateModeVals :
        Commit("set_shadowUpdateMode", data.shadowUpdateMode, v,
               onSetShadowUpdateMode(Stored("shadowUpdateMode", v), data.shadowUpdateMode, v))

SetMask ==
    \E v \in MaskVals :
        Commit("set_mask", data.mask, v,
               onSetMask(Stored("mask", v), data.mask, v))

SetAffectDynamic ==
    \E v \in BOOLEAN :
        Commit("set_affectDynamic", data.affectDynamic, v,
               onSetAffectDynamic(Stored("affectDynamic", v), data.affectDynamic, v))

SetAffectLightmapped ==
    \E v \in BOOLEAN :
        Commit("set_affectLightmapped", data.affectLightmapped, v,
               onSetaffectLightmapped(Stored("affectLightmapped", v), data.affectLightmapped, v))

SetBake ==
    \E v \in BOOLEAN :
        Commit("set_bake", data.bake, v,
               onSetBake(Stored("bake", v), data.bake, v))

RefreshProperties ==
    Commit("refreshProperties", FALSE, FALSE, refreshProperties(This))

UpdateShadow ==
    Commit("updateShadow", FALSE, FALSE, updateShadow(This))

OnEnable ==
    Commit("onEnable", FALSE, FALSE, onEnable(This))

OnDisable ==
    Commit("onDisable", FALSE, FALSE, onDisable(This))

\* The enabled flags of the component and of its entity are owned by the
\* base component and the entity; the hooks above are what they call.
SetEnabled ==
    /\ enabled' = ~enabled
    /\ UNCHANGED <<data, light, lightMap, baked, entityEnabled, sceneModels, last, prev>>

SetEntityEnabled ==
    /\ entityEnabled' = ~entityEnabled
    /\ UNCHANGED <<data, light, lightMap, baked, enabled, sceneModels, last, prev>>

Next ==
    \/ SetType
    \/ SetColor
    \/ SetIntensity
    \/ SetCastShadows
    \/ SetShadowDistance
    \/ SetShadowResolution
    \/ SetShadowBias
    \/ SetNormalOffsetBias
    \/ SetRange
    \/ SetInnerConeAngle
    \/ SetOuterConeAngle
    \/ SetFalloffMode
    \/ SetShadowType
    \/ SetShadowUpdateMode
    \/ SetMask
    \/ SetAffectDynamic
    \/ SetAffectLightmapped
    \/ SetBake
    \/ RefreshProperties
    \/ UpdateShadow
    \/ OnEnable
    \/ OnDisable
    \/ SetEnabled
    \/ SetEntityEnabled

Spec == Init /\ [][Next]_vars

(***************************************************************************)
(* The same component driven through one family of events at a time.      *)
(***************************************************************************)
InitGated == InitFrom({NULL}, {<< >>}, {FALSE}, {FALSE}, {TRUE}, {TRUE})

NextGated ==
    \/ SetType
    \/ SetShadowDistance
    \/ SetRange
    \/ SetInnerConeAngle
    \/ SetOuterConeAngle
    \/ SetFalloffMode
    \/ RefreshProperties

SpecGated == InitGated /\ [][NextGated]_vars

InitShadow == InitFrom({NULL}, {<< >>}, {FALSE}, {FALSE}, {TRUE}, {TRUE})

NextShadow ==
    \/ SetType
    \/ SetCastShadows
    \/ SetShadowResolution
    \/ SetShadowBias
    \/ SetNormalOffsetBias
    \/ SetShadowType
    \/ SetShadowUpdateMode
    \/ RefreshProperties
    \/ UpdateShadow

SpecShadow == InitShadow /\ [][NextShadow]_vars

InitMask == InitFrom({NULL}, {<< >>}, BOOLEAN, BOOLEAN, {TRUE}, {TRUE})

NextMask ==
    \/ SetType
    \/ SetMask
    \/ SetAffectDynamic
    \/ SetAffectLightmapped
    \/ SetBake
    \/ RefreshProperties

SpecMask == InitMask /\ [][NextMask]_vars

InitLifecycle == InitFrom(ModelVals, SceneVals, {FALSE}, {FALSE}, BOOLEAN, BOOLEAN)

NextLifecycle ==
    \/ SetType
    \/ SetColor
    \/ SetIntensity
    \/ RefreshProperties
    \/ OnEnable
    \/ OnDisable
    \/ SetEnabled
    \/ SetEntityEnabled

SpecLifecycle == InitLifecycle /\ [][NextLifecycle]_vars

(***************************************************************************)
(* Reading the recorded events.                                            *)
(***************************************************************************)
Count(calls, name) == Cardinality({i \in 1..Len(calls) : calls[i][1] = name})

HasCall(calls, name, arg) ==
    \E i \in 1..Len(calls) : calls[i][1] = name /\ calls[i][2] = arg

TypeChanged(ev) == ev.op = "set_type" /\ ev.old # ev.new

BitXor(a, b) == BitOr(a, b) - BitAnd(a, b)

FlagBits == MASK_DYNAMIC + MASK_BAKED + MASK_LIGHTMAP

GatedProps ==
    {"shadowDistance", "range", "falloffMode", "innerConeAngle", "outerConeAngle"}

\* the light types a property is documented to affect
Applies(p) ==
    CASE p = "shadowDistance" -> {"directional"}
      [] p = "range"          -> {"point", "spot"}
      [] p = "falloffMode"    -> {"point", "spot"}
      [] p = "innerConeAngle" -> {"spot"}
      [] p = "outerConeAngle" -> {"spot"}

SetterOf(p) ==
    CASE p = "shadowDistance" -> "setShadowDistance"
      [] p = "range"          -> "setAttenuationEnd"
      [] p = "falloffMode"    -> "setFalloffMode"
      [] p = "innerConeAngle" -> "setInnerConeAngle"
      [] p = "outerConeAngle" -> "setOuterConeAngle"

EventOf(p) ==
    CASE p = "shadowDistance" -> "set_shadowDistance"
      [] p = "range"          -> "set_range"
      [] p = "falloffMode"    -> "set_falloffMode"
      [] p = "innerConeAngle" -> "set_innerConeAngle"
      [] p = "outerConeAngle" -> "set_outerConeAngle"

\* f = -0.01 * v on fractions, by cross-multiplication
IsNegHundredthOf(f, v) == f.num * (100 * v.den) = (-1 * v.num) * f.den

(***************************************************************************)
(* C1: for every type-gated property, no event that leaves the type       *)
(* outside the types the property applies to calls the property's render-  *)
(* light setter (a set of the property made under a mismatched type        *)
(* included); and a type change to a matching type forwards, once, the     *)
(* value stored for the property - the value of the set just before the    *)
(* change when there was one.                                              *)
(***************************************************************************)
C1_GatedForwarding ==
    \A p \in GatedProps :
        /\ (last.op # "none" /\ data.type \notin Applies(p))
               => Count(last.calls, SetterOf(p)) = 0
        /\ (TypeChanged(last) /\ data.type \in Applies(p))
               => /\ Count(last.calls, SetterOf(p)) = 1
                  /\ HasCall(last.calls, SetterOf(p), data[p])
                  /\ (prev.op = EventOf(p)
                          => HasCall(last.calls, SetterOf(p), prev.new))

\* innerConeAngle set to 30 on a directional light (nothing forwarded), then
\* the type changed to spot: setInnerConeAngle(30) reaches the new light.
C1_Witness ==
    /\ prev.op = "set_innerConeAngle"
    /\ prev.new = 30
    /\ Count(prev.calls, "setInnerConeAngle") = 0
    /\ last.op = "set_type"
    /\ last.old = "directional"
    /\ last.new = "spot"
    /\ HasCall(last.calls, "setInnerConeAngle", 30)

(***************************************************************************)
(* C2: after a type change the three flag bits of the new light's mask    *)
(* (MASK_DYNAMIC, MASK_BAKED, MASK_LIGHTMAP) are the ones the flag         *)
(* handlers had produced on the light that was replaced.                   *)
(***************************************************************************)
C2_TypeChangeKeepsFlagBits ==
    TypeChanged(last)
        => BitAnd(light.mask, FlagBits) = BitAnd(last.maskBefore, FlagBits)

(***************************************************************************)
(* C3: with lightMap and baked both true, bake toggled on and then         *)
(* affectLightmapped toggled on leave MASK_LIGHTMAP cleared, MASK_BAKED    *)
(* set and every other bit as it was before the two toggles.               *)
(***************************************************************************)
C3_BakeThenAffectLightmapped ==
    ( /\ lightMap /\ baked
      /\ prev.op = "set_bake" /\ ~prev.old /\ prev.new
      /\ last.op = "set_affectLightmapped" /\ ~last.old /\ last.new )
        => /\ BitAnd(light.mask, MASK_LIGHTMAP) = 0
           /\ BitAnd(light.mask, MASK_BAKED) = MASK_BAKED
           /\ BitAndNot(light.mask, MASK_BAKED + MASK_LIGHTMAP)
                  = BitAndNot(prev.maskBefore, MASK_BAKED + MASK_LIGHTMAP)

\* starting from mask 13 (MASK_LIGHTMAP set, MASK_BAKED clear, bits 1 and 8
\* set) the two toggles end on 11.
C3_Witness ==
    /\ lightMap /\ baked
    /\ prev.op = "set_bake" /\ ~prev.old /\ prev.new
    /\ prev.maskBefore = 13
    /\ last.op = "set_affectLightmapped" /\ ~last.old /\ last.new
    /\ light.mask = 11

(***************************************************************************)
(* C4: the scene never holds the component's model twice, and the second   *)
(* of two onEnable calls in a row on a component with a model asks         *)
(* containsModel and adds nothing, so the two calls add at most once.      *)
(***************************************************************************)
C4_EnableTwiceAddsOnce ==
    /\ Cardinality({i \in 1..Len(sceneModels) : sceneModels[i] = "lightModel"}) <= 1
    /\ (data.model # NULL /\ prev.op = "onEnable" /\ last.op = "onEnable")
           => /\ Count(last.calls, "containsModel") = 1
              /\ Count(last.calls, "addModel") = 0
              /\ Count(prev.calls \o last.calls, "addModel") <= 1
              /\ sceneModels = last.sceneBefore

\* the first onEnable added the model, the second found it
C4_Witness ==
    /\ data.model = "lightModel"
    /\ prev.op = "onEnable"
    /\ Count(prev.calls, "addModel") = 1
    /\ last.op = "onEnable"
    /\ containsModel(sceneModels, "lightModel")

(***************************************************************************)
(* C5: onDisable removes the model only if the scene contains it: on a     *)
(* component with a model that the scene does not contain (onDisable       *)
(* twice in a row, or before any onEnable) it makes no removeModel call.   *)
(***************************************************************************)
C5_GuardedRemove ==
    ( /\ last.op = "onDisable"
      /\ data.model # NULL
      /\ ~containsModel(last.sceneBefore, data.model) )
        => Count(last.calls, "removeModel") = 0

(***************************************************************************)
(* C6: onDisable on a component without a model only disables the render   *)
(* light: no containsModel, no removeModel, scene model list unchanged.    *)
(***************************************************************************)
C6_DisableWithoutModel ==
    (last.op = "onDisable" /\ data.model = NULL)
        => /\ last.calls = << <<"setEnabled", FALSE>> >>
           /\ Count(last.calls, "containsModel") = 0
           /\ Count(last.calls, "removeModel") = 0
           /\ sceneModels = last.sceneBefore

C6_Witness ==
    /\ last.op = "onDisable"
    /\ data.model = NULL
    /\ sceneModels = <<"otherModel">>
    /\ ~light.enabled

(***************************************************************************)
(* C7 as stated: type changed from point to spot and refreshProperties     *)
(* then called; over the two, each of setAttenuationEnd, setFalloffMode,   *)
(* setInnerConeAngle and setOuterConeAngle is called on the new light      *)
(* exactly once.                                                           *)
(***************************************************************************)
C7_OnceOverTypeChangeAndRefresh ==
    ( /\ prev.op = "set_type" /\ prev.old = "point" /\ prev.new = "spot"
      /\ last.op = "refreshProperties" )
        => \A p \in {"range", "falloffMode", "innerConeAngle", "outerConeAngle"} :
               Count(prev.calls \o last.calls, SetterOf(p)) = 1

(***************************************************************************)
(* C7 amended: the type change from point to spot alone, through the       *)
(* refresh onSetType runs, calls each of the four setters on the new light *)
(* exactly once with the stored value; a refreshProperties called after it *)
(* calls each a second time.                                               *)
(***************************************************************************)
C7_OncePerRefresh ==
    \A p \in {"range", "falloffMode", "innerConeAngle", "outerConeAngle"} :
        /\ (last.op = "set_type" /\ last.old = "point" /\ last.new = "spot")
               => /\ Count(last.calls, SetterOf(p)) = 1
                  /\ HasCall(last.calls, SetterOf(p), data[p])
                  /\ last.calls[1] = <<"changeType", "spot">>
        /\ ( /\ prev.op = "set_type" /\ prev.old = "point" /\ prev.new = "spot"
             /\ last.op = "refreshProperties" )
               => /\ Count(prev.calls \o last.calls, SetterOf(p)) = 2
                  /\ HasCall(last.calls, SetterOf(p), data[p])

C7_Witness ==
    /\ last.op = "set_type" /\ last.old = "point" /\ last.new = "spot"
    /\ data.range = 20
    /\ data.innerConeAngle = 30
    /\ HasCall(last.calls, "setAttenuationEnd", 20)
    /\ HasCall(last.calls, "setInnerConeAngle", 30)
    /\ HasCall(last.calls, "setOuterConeAngle", 45)
    /\ HasCall(last.calls, "setFalloffMode", "LIGHTFALLOFF_LINEAR")

(***************************************************************************)
(* C8: a step that runs refreshProperties (directly or through a type      *)
(* change) takes the enable path - one setEnabled(true), the model added   *)
(* if the scene lacked it - exactly when the component and its entity are  *)
(* both enabled; otherwise it makes no setEnabled call, no scene call and  *)
(* leaves the scene's model list as it was.                                *)
(***************************************************************************)
RefreshStep ==
    /\ last'.op = "refreshProperties" \/ TypeChanged(last')
    /\ enabled' = enabled
    /\ entityEnabled' = entityEnabled

C8_RefreshEnablePath ==
    [][ RefreshStep =>
          IF enabled /\ entityEnabled
            THEN /\ Count(last'.calls, "setEnabled") = 1
                 /\ HasCall(last'.calls, "setEnabled", TRUE)
                 /\ light'.enabled
                 /\ sceneModels' =
                        IF data.model = NULL \/ containsModel(sceneModels, data.model)
                          THEN sceneModels
                          ELSE Append(sceneModels, data.model)
                 /\ Count(last'.calls, "addModel") =
                        IF data.model = NULL \/ containsModel(sceneModels, data.model)
                          THEN 0 ELSE 1
            ELSE /\ Count(last'.calls, "setEnabled") = 0
                 /\ Count(last'.calls, "containsModel") = 0
                 /\ Count(last'.calls, "addModel") = 0
                 /\ sceneModels' = sceneModels
      ]_vars

\* a refresh on an enabled component of an enabled entity added the model
C8_Witness ==
    /\ last.op = "refreshProperties"
    /\ enabled /\ entityEnabled
    /\ Count(last.calls, "setEnabled") = 1
    /\ Count(last.calls, "addModel") = 1
    /\ containsModel(sceneModels, "lightModel")

(***************************************************************************)
(* C9: every setShadowBias call carries -0.01 times the stored shadowBias, *)
(* whatever the light type; a set of shadowBias makes exactly one such     *)
(* call with -0.01 times the value set, and every refresh exactly one.     *)
(***************************************************************************)
C9_ShadowBiasRemap ==
    /\ \A i \in 1..Len(last.calls) :
           last.calls[i][1] = "setShadowBias"
               => IsNegHundredthOf(last.calls[i][2], data.shadowBias)
    /\ (last.op = "set_shadowBias")
           => /\ Len(last.calls) = 1
              /\ last.calls[1][1] = "setShadowBias"
              /\ IsNegHundredthOf(last.calls[1][2], last.new)
    /\ (last.op = "refreshProperties" \/ TypeChanged(last))
           => Count(last.calls, "setShadowBias") = 1

\* shadowBias 3 on a spot light reaches the render light as -3/100
C9_Witness ==
    /\ last.op = "set_shadowBias"
    /\ last.new = Frac(3, 1)
    /\ data.type = "spot"
    /\ HasCall(last.calls, "setShadowBias", Frac(-3, 100))

(***************************************************************************)
(* C10: the affectDynamic handler changes no mask bit but MASK_DYNAMIC;    *)
(* the affectLightmapped handler none but MASK_BAKED, and MASK_LIGHTMAP    *)
(* when lightMap is set; the bake handler none but MASK_LIGHTMAP, and      *)
(* MASK_BAKED when baked is set; and a handler fired with equal old and    *)
(* new values changes no bit.                                              *)
(***************************************************************************)
C10_TogglesKeepOtherBits ==
    LET changed == BitXor(light.mask, last.maskBefore)
    IN  /\ last.op = "set_affectDynamic"
               => BitAndNot(changed, MASK_DYNAMIC) = 0
        /\ last.op = "set_affectLightmapped"
               => BitAndNot(changed,
                            IF lightMap THEN MASK_BAKED + MASK_LIGHTMAP
                                        ELSE MASK_BAKED) = 0
        /\ last.op = "set_bake"
               => BitAndNot(changed,
                            IF baked THEN MASK_BAKED + MASK_LIGHTMAP
                                     ELSE MASK_LIGHTMAP) = 0
        /\ ( /\ last.op \in {"set_affectDynamic", "set_affectLightmapped", "set_bake"}
             /\ last.old = last.new )
               => changed = 0

\* bake toggled on with baked unset, on a mask of 10: MASK_LIGHTMAP is added
\* and MASK_BAKED and bit 8 stay.
C10_Witness ==
    /\ ~baked
    /\ last.op = "set_bake" /\ ~last.old /\ last.new
    /\ last.maskBefore = 10
    /\ light.mask = 14

====
